---- MODULE Spec2Model ----
(***************************************************************************)
(* AsciiComposer of librime (src/rime/gear/ascii_composer.cc): the         *)
(* processor that decides, per key event, between native composition,      *)
(* persistent ascii mode and the temporary ascii sub-mode.                 *)
(*                                                                         *)
(* A key event is a record [keycode, release, shift, ctrl, alt, super,     *)
(* caps]; a text is a sequence of byte values.  The composer and the       *)
(* parts of Context and Engine it touches are the variables; every         *)
(* handler is an operator from a state record to a state record, applied   *)
(* by one action.                                                          *)
(***************************************************************************)
EXTENDS Integers, Sequences, FiniteSets, TLC

VARIABLES
    \* AsciiComposer members
    bindings_,               \* AsciiModeSwitchKeyBindings: keycode -> style
    caps_lock_switch_style_,
    good_old_caps_lock_,
    toggle_with_caps_,
    shift_key_pressed_,
    ctrl_key_pressed_,
    toggle_expired_,
    connection_,             \* TRUE iff connection_ holds a connected slot
    \* Context
    ascii_mode,              \* option "ascii_mode"
    temp_ascii,              \* option "temp_ascii"
    input,                   \* the composition input (raw code)
    confirmed,               \* the current selection has been confirmed
    commit_history,          \* sequence of committed texts, latest last
    slots,                   \* live slots of update_notifier owned by the composer
    \* Engine / Context sinks: what the last operation committed
    commit_text,             \* text passed to Engine::CommitText
    committed,               \* text committed by Context::Commit
    \* environment
    now,                     \* std::chrono::steady_clock
    alive,                   \* the composer has not been destroyed
    \* what the last call of ProcessKeyEvent saw and answered
    key_event,
    result,
    branch,                  \* the return path it took
    down_at,                 \* clock reading at the last first key down
    caps_run,                \* the Caps Lock press last answered, if no other key followed
    since_down,              \* what became of other keys' events since the
                             \* last first key down ("idle" before the first)
    ticket_schema            \* the schema LoadConfig read (ticket.schema)

vars == << bindings_, caps_lock_switch_style_, good_old_caps_lock_,
           toggle_with_caps_, shift_key_pressed_, ctrl_key_pressed_,
           toggle_expired_, connection_, ascii_mode, temp_ascii, input,
           confirmed, commit_history, slots, commit_text, committed, now,
           alive, key_event, result, branch, down_at, caps_run,
           since_down, ticket_schema >>

----------------------------------------------------------------------------
(* Bounds of the model *)

MaxInput == 2       \* longest composition input
MaxHistory == 1     \* most records kept in the commit history
MaxNow == 600       \* last clock reading, in milliseconds

\* clock advances between two operations
Deltas == {499, 500, 600}

----------------------------------------------------------------------------
(* Key codes (X11 keysyms) and character classes *)

XK_space == 32
XK_asciitilde == 126
XK_a == 97
XK_z == 122
XK_BackSpace == 65288
XK_Return == 65293
XK_Eisu_toggle == 65328
XK_Shift_L == 65505
XK_Shift_R == 65506
XK_Control_L == 65507
XK_Control_R == 65508
XK_Caps_Lock == 65509
XK_Delete == 65535

\* ProcessResult
kRejected == "kRejected"
kAccepted == "kAccepted"
kNoop == "kNoop"

\* AsciiModeSwitchStyle
kAsciiModeSwitchNoop == "kAsciiModeSwitchNoop"
kAsciiModeSwitchInline == "kAsciiModeSwitchInline"
kAsciiModeSwitchCommitText == "kAsciiModeSwitchCommitText"
kAsciiModeSwitchCommitCode == "kAsciiModeSwitchCommitCode"
kAsciiModeSwitchClear == "kAsciiModeSwitchClear"

Styles == { kAsciiModeSwitchNoop, kAsciiModeSwitchInline,
            kAsciiModeSwitchCommitText, kAsciiModeSwitchCommitCode,
            kAsciiModeSwitchClear }

\* static table ascii_mode_switch_styles: repr -> style, ended by {NULL, Noop}
ascii_mode_switch_styles ==
    << [repr |-> "inline_ascii", style |-> kAsciiModeSwitchInline],
       [repr |-> "commit_text", style |-> kAsciiModeSwitchCommitText],
       [repr |-> "commit_code", style |-> kAsciiModeSwitchCommitCode],
       [repr |-> "clear", style |-> kAsciiModeSwitchClear] >>

KeyEvent(k, rel, sh, ct, al, su, cp) ==
    [keycode |-> k, release |-> rel, shift |-> sh, ctrl |-> ct,
     alt |-> al, super |-> su, caps |-> cp]

Press(k) == KeyEvent(k, FALSE, FALSE, FALSE, FALSE, FALSE, FALSE)
Release(k) == KeyEvent(k, TRUE, FALSE, FALSE, FALSE, FALSE, FALSE)

\* a plain char of a std::string read as int: bytes above 127 are negative
CharToInt(b) == IF b >= 128 THEN b - 256 ELSE b

IsPrintableMutLt(ch) == XK_space <= ch /\ ch < XK_asciitilde
IsPrintable(ch) == XK_space <= ch /\ ch <= XK_asciitilde

IsLower(ch) == XK_a <= ch /\ ch <= XK_z

isascii(ch) == 0 <= ch /\ ch <= 127
islower(ch) == 97 <= ch /\ ch <= 122
isupper(ch) == 65 <= ch /\ ch <= 90
isalpha(ch) == islower(ch) \/ isupper(ch)
toupper(ch) == IF islower(ch) THEN ch - 32 ELSE ch
tolower(ch) == IF isupper(ch) THEN ch + 32 ELSE ch

\* , ^ \ " ! ? ;
MandatoryTriggers == {44, 94, 92, 34, 33, 63, 59}
\* . ' < > : ( ) [ ] { }
OptionalTriggers == {46, 39, 60, 62, 58, 40, 41, 91, 93, 123, 125}

MayProcessTransformMutNoOptional(ch, optional) == ch \in MandatoryTriggers
MayProcessTransform(ch, optional) ==
    \/ ch \in MandatoryTriggers
    \/ optional /\ ch \in OptionalTriggers

\* all_of(latest.cbegin(), latest.cend(), IsPrintable)
AllPrintable(text) == \A i \in 1..Len(text) : IsPrintable(CharToInt(text[i]))


----------------------------------------------------------------------------
(* Configuration: AsciiComposer::LoadConfig and load_bindings *)

\* modifier masks of KeyEvent (key_event.h)
kShiftMask == 1
kLockMask == 2
kControlMask == 4
kAltMask == 8
kReleaseMask == 1073741824

ModifierNames ==
    [Shift |-> kShiftMask, Lock |-> kLockMask, Control |-> kControlMask,
     Alt |-> kAltMask, Release |-> kReleaseMask]

KeyNames ==
    [space |-> XK_space, Return |-> XK_Return, Eisu_toggle |-> XK_Eisu_toggle,
     Shift_L |-> XK_Shift_L, Shift_R |-> XK_Shift_R,
     Control_L |-> XK_Control_L, Control_R |-> XK_Control_R,
     Caps_Lock |-> XK_Caps_Lock]

RECURSIVE ParseModifiers(_)
ParseModifiers(tokens) ==
    IF tokens = << >> THEN [ok |-> TRUE, modifier |-> 0]
    ELSE LET rest == ParseModifiers(Tail(tokens))
         IN  IF Head(tokens) \in DOMAIN ModifierNames /\ rest.ok
             THEN [ok |-> TRUE,
                   modifier |-> rest.modifier + ModifierNames[Head(tokens)]]
             ELSE [ok |-> FALSE, modifier |-> 0]

\* KeyEvent::Parse of "Mod+Mod+Name", the string given as its '+'-separated
\* tokens: every token but the last names a modifier, the last names a key
Parse(repr) ==
    IF repr = << >> THEN [ok |-> FALSE, keycode |-> 0, modifier |-> 0]
    ELSE LET name == repr[Len(repr)]
             mods == ParseModifiers(SubSeq(repr, 1, Len(repr) - 1))
         IN  IF name \in DOMAIN KeyNames /\ mods.ok
             THEN [ok |-> TRUE, keycode |-> KeyNames[name],
                   modifier |-> mods.modifier]
             ELSE [ok |-> FALSE, keycode |-> 0, modifier |-> 0]

\* the scan of ascii_mode_switch_styles for value->str(): the style of the
\* first entry whose repr matches, the terminator's Noop when none does
StyleOf(str) ==
    LET hits == { i \in 1..Len(ascii_mode_switch_styles) :
                    ascii_mode_switch_styles[i].repr = str }
    IN  IF hits = {} THEN kAsciiModeSwitchNoop
        ELSE ascii_mode_switch_styles[
                 CHOOSE i \in hits : \A j \in hits : i <= j].style

SaveBinding(dest, keycode, style) ==
    [k \in DOMAIN dest \cup {keycode} |->
        IF k = keycode THEN style ELSE dest[k]]

\* one iteration of the loop of load_bindings
LoadBindingMutKeepModifiers(dest, entry) ==
    IF ~entry.scalar THEN dest
    ELSE IF StyleOf(entry.value) = kAsciiModeSwitchNoop THEN dest
    ELSE LET ke == Parse(entry.key)
         IN  IF ~ke.ok THEN dest
             ELSE SaveBinding(dest, ke.keycode, StyleOf(entry.value))
LoadBinding(dest, entry) ==
    IF ~entry.scalar THEN dest
    ELSE IF StyleOf(entry.value) = kAsciiModeSwitchNoop THEN dest
    ELSE LET ke == Parse(entry.key)
         IN  IF ~ke.ok \/ ke.modifier # 0 THEN dest
             ELSE SaveBinding(dest, ke.keycode, StyleOf(entry.value))

RECURSIVE load_bindings(_, _)
load_bindings(src, dest) ==
    IF src = << >> THEN dest
    ELSE load_bindings(Tail(src), LoadBinding(dest, Head(src)))

NoBindings == [k \in {} |-> kAsciiModeSwitchNoop]

Entry(key, value) == [key |-> key, scalar |-> TRUE, value |-> value]

\* A schema: present or null; each of its config and the preset config gives
\* good_old_caps_lock ("true", "false" or "unset") and the switch_key map
\* (has_map, and its entries in the order of the map's keys).
SchemaFull ==
    [present |-> TRUE, preset |-> TRUE,
     good_old |-> "true", preset_good_old |-> "false",
     has_map |-> TRUE,
     map |-> << Entry(<<"Caps_Lock">>, "clear"),
                Entry(<<"Control", "space">>, "commit_text"),
                Entry(<<"Control_L">>, "commit_code"),
                Entry(<<"Eisu_toggle">>, "commit_text"),
                Entry(<<"Shift_L">>, "inline_ascii"),
                Entry(<<"Shift_R">>, "commit_text"),
                Entry(<<"bogus">>, "clear"),
                Entry(<<"space">>, "noop") >>,
     preset_has_map |-> TRUE,
     preset_map |-> << Entry(<<"Shift_L">>, "clear") >>]

SchemaPreset ==
    [present |-> TRUE, preset |-> TRUE,
     good_old |-> "unset", preset_good_old |-> "false",
     has_map |-> FALSE, map |-> << >>,
     preset_has_map |-> TRUE,
     preset_map |-> << Entry(<<"Caps_Lock">>, "inline_ascii"),
                       Entry(<<"Control_L">>, "noop"),
                       Entry(<<"Eisu_toggle">>, "clear"),
                       Entry(<<"Shift_L">>, "commit_code"),
                       Entry(<<"Shift_R">>, "no_such_style") >>]

SchemaNull ==
    [present |-> FALSE, preset |-> FALSE,
     good_old |-> "unset", preset_good_old |-> "unset",
     has_map |-> FALSE, map |-> << >>,
     preset_has_map |-> FALSE, preset_map |-> << >>]

Schemas == { SchemaFull, SchemaPreset, SchemaNull }

\* AsciiComposer::LoadConfig: the three members it sets
LoadConfig(schema) ==
    LET cleared == [bindings |-> NoBindings,
                    caps_lock_switch_style |-> kAsciiModeSwitchNoop,
                    good_old_caps_lock |-> FALSE]
        good_old ==
            IF schema.good_old # "unset" THEN schema.good_old = "true"
            ELSE IF schema.preset /\ schema.preset_good_old # "unset"
                 THEN schema.preset_good_old = "true"
                 ELSE FALSE
        bindings ==
            IF schema.has_map THEN load_bindings(schema.map, NoBindings)
            ELSE load_bindings(schema.preset_map, NoBindings)
        caps == IF XK_Caps_Lock \in DOMAIN bindings
                THEN IF bindings[XK_Caps_Lock] = kAsciiModeSwitchInline
                     THEN kAsciiModeSwitchClear
                     ELSE bindings[XK_Caps_Lock]
                ELSE kAsciiModeSwitchNoop
    IN  IF ~schema.present THEN cleared
        ELSE IF ~schema.has_map /\ ~(schema.preset /\ schema.preset_has_map)
             THEN [cleared EXCEPT !.good_old_caps_lock = good_old]
             ELSE [bindings |-> bindings,
                   caps_lock_switch_style |-> caps,
                   good_old_caps_lock |-> good_old]


----------------------------------------------------------------------------
(* The state the handlers act on, as a record s of the variables below.    *)

State ==
    [toggle_with_caps_ |-> toggle_with_caps_,
     shift_key_pressed_ |-> shift_key_pressed_,
     ctrl_key_pressed_ |-> ctrl_key_pressed_,
     toggle_expired_ |-> toggle_expired_,
     connection_ |-> connection_,
     ascii_mode |-> ascii_mode,
     temp_ascii |-> temp_ascii,
     input |-> input,
     confirmed |-> confirmed,
     commit_history |-> commit_history,
     slots |-> slots,
     commit_text |-> commit_text,
     committed |-> committed,
     result |-> result,
     branch |-> branch]

\* "return res", reached on the path named br
Return(s, res, br) == [s EXCEPT !.result = res, !.branch = br]

----------------------------------------------------------------------------
(* Context and its notifier, as far as the composer uses them *)

IsComposing(s) == s.input # << >>

\* CommitHistory::latest_text(): the text of the last record, or ""
latest_text(s) ==
    IF s.commit_history = << >> THEN << >>
    ELSE s.commit_history[Len(s.commit_history)]

\* connection_.disconnect(): the slot it holds, if any, leaves the notifier
Disconnect(s) ==
    IF s.connection_
    THEN [s EXCEPT !.connection_ = FALSE, !.slots = @ - 1]
    ELSE s

\* connection_ = ctx->update_notifier().connect(...): a new slot; the handle
\* held before is overwritten, which does not disconnect its slot
Connect(s) == [s EXCEPT !.connection_ = TRUE, !.slots = @ + 1]

OnContextUpdateMutKeepMode(s) ==
    IF ~IsComposing(s) THEN Disconnect(s) ELSE s
OnContextUpdate(s) ==
    IF ~IsComposing(s)
    THEN [Disconnect(s) EXCEPT !.ascii_mode = FALSE]
    ELSE s

\* update_notifier_(ctx): runs the composer's callback of every live slot
UpdateNotify(s) == IF s.slots > 0 THEN OnContextUpdate(s) ELSE s

PushInput(s, ch) == UpdateNotify([s EXCEPT !.input = Append(@, ch)])

Clear(s) == UpdateNotify([s EXCEPT !.input = << >>, !.confirmed = FALSE])

ConfirmCurrentSelection(s) ==
    IF IsComposing(s) THEN [s EXCEPT !.confirmed = TRUE] ELSE s

\* drops the trailing segments not yet selected; the input (raw code) and a
\* confirmed selection stay
ClearNonConfirmedComposition(s) == s

\* commits the composition's text, which the commit history records, and
\* clears the context
Commit(s) ==
    IF IsComposing(s)
    THEN Clear([s EXCEPT !.committed = s.input,
                         !.commit_history = Append(@, s.input)])
    ELSE s

----------------------------------------------------------------------------
(* Temporary ascii mode *)

TempAsciiOffMutNoClear(s) == [s EXCEPT !.temp_ascii = FALSE]
TempAsciiOff(s) == [s EXCEPT !.temp_ascii = FALSE, !.commit_history = << >>]

TempAsciiOn(s) == [s EXCEPT !.temp_ascii = TRUE, !.commit_history = << >>]

\* the condition that leaves temp_ascii when nothing is composed
LeavesTempAsciiMutNoSpace(ch) ==
    ~IsPrintable(ch) \/ MayProcessTransform(ch, FALSE)
LeavesTempAscii(ch) ==
    ch = XK_space \/ ~IsPrintable(ch) \/ MayProcessTransform(ch, FALSE)

\* the body of "if (ctx->get_option("temp_ascii"))" in TempAsciiProcess
TempAsciiWhileOnMutNoComposingGuard(s, ch, composing) ==
    IF LeavesTempAscii(ch)
    THEN Return(TempAsciiOff(s), kNoop, "temp_leave")
    ELSE Return(s, kRejected, "temp_swallow")
TempAsciiWhileOn(s, ch, composing) ==
    IF composing THEN Return(s, kNoop, "temp_on_composing")
    ELSE IF LeavesTempAscii(ch)
         THEN Return(TempAsciiOff(s), kNoop, "temp_leave")
         ELSE Return(s, kRejected, "temp_swallow")

\* the Return key while composing with temp_ascii off
EntersOnReturnMutAnyKey(s, ch) == AllPrintable(latest_text(s))
EntersOnReturn(s, ch) == ch = XK_Return /\ AllPrintable(latest_text(s))

\* keys that pass through while temp_ascii is off and nothing is composed
PassesWhileOff(ch) ==
    IsLower(ch) \/ ~IsPrintable(ch) \/ MayProcessTransform(ch, TRUE)

TempAsciiProcess(s, e) ==
    LET ch == e.keycode
        composing == IsComposing(s)
    IN  IF e.release \/ ch = XK_BackSpace \/ ch = XK_Delete
        THEN Return(s, kNoop, "temp_skip")
        ELSE IF ~composing /\ ch = XK_space /\ e.shift
        THEN Return(s, kNoop, "temp_shift_space")
        ELSE IF s.temp_ascii
        THEN TempAsciiWhileOn(s, ch, composing)
        ELSE IF composing
        THEN Return(IF EntersOnReturn(s, ch) THEN TempAsciiOn(s) ELSE s,
                    kNoop, "temp_off_composing")
        ELSE IF PassesWhileOff(ch)
        THEN Return(s, kNoop, "temp_pass")
        ELSE Return(TempAsciiOn(s), kRejected, "temp_enter")

----------------------------------------------------------------------------
(* Mode switches *)

\* connection_.disconnect() at the head of the composing branch
DisconnectBeforeSwitchMutSkip(s) == s
DisconnectBeforeSwitch(s) == Disconnect(s)

SwitchAsciiModeMutOptionWhenComposing(s, mode, style) ==
    LET d == DisconnectBeforeSwitch(s)
    IN  IF ~IsComposing(s) THEN s
        ELSE [(IF style = kAsciiModeSwitchInline
               THEN IF mode THEN Connect(d) ELSE d
               ELSE IF style = kAsciiModeSwitchCommitText
               THEN ConfirmCurrentSelection(d)
               ELSE IF style = kAsciiModeSwitchCommitCode
               THEN Commit(ClearNonConfirmedComposition(d))
               ELSE IF style = kAsciiModeSwitchClear
               THEN Clear(d)
               ELSE d) EXCEPT !.ascii_mode = mode]
SwitchAsciiMode(s, mode, style) ==
    LET d == DisconnectBeforeSwitch(s)
        s1 == IF ~IsComposing(s) THEN s
              ELSE IF style = kAsciiModeSwitchInline
                   THEN IF mode THEN Connect(d) ELSE d
              ELSE IF style = kAsciiModeSwitchCommitText
                   THEN ConfirmCurrentSelection(d)
              ELSE IF style = kAsciiModeSwitchCommitCode
                   THEN Commit(ClearNonConfirmedComposition(d))
              ELSE IF style = kAsciiModeSwitchClear
                   THEN Clear(d)
              ELSE d
    IN  [s1 EXCEPT !.ascii_mode = mode]

\* bool ascii_mode = !ctx->get_option("ascii_mode")
ToggleTargetMutSame(s) == s.ascii_mode
ToggleTarget(s) == ~s.ascii_mode

ToggleAsciiModeWithKey(s, key_code) ==
    IF key_code \notin DOMAIN bindings_ THEN s
    ELSE [SwitchAsciiMode(s, ToggleTarget(s), bindings_[key_code])
            EXCEPT !.toggle_with_caps_ = (key_code = XK_Caps_Lock)]

----------------------------------------------------------------------------
(* Caps Lock *)

\* shift_key_pressed_ = ctrl_key_pressed_ = false
ClearPressed(s) ==
    [s EXCEPT !.shift_key_pressed_ = FALSE, !.ctrl_key_pressed_ = FALSE]

\* !key_event.caps(): the mode a Caps Lock press switches to
CapsTargetMutNotInverted(e) == e.caps
CapsTarget(e) == ~e.caps

\* the letter committed while the caps modifier is set
InvertCaseMutKeep(ch) == ch
InvertCase(ch) ==
    IF islower(ch) THEN toupper(ch)
    ELSE IF isupper(ch) THEN tolower(ch)
    ELSE ch

\* engine_->CommitText(text)
\* the direct text-commit sink; the commit history records the text
CommitText(s, text) ==
    [s EXCEPT !.commit_text = text, !.commit_history = Append(@, text)]

\* good_old_caps_lock_ && !toggle_with_caps_ && ctx->get_option("ascii_mode"):
\* Caps Lock is disabled as a switch key while ascii mode was entered by
\* another key
CapsLockDisabledMutNever(s) == FALSE
CapsLockDisabled(s) ==
    good_old_caps_lock_ /\ ~s.toggle_with_caps_ /\ s.ascii_mode

ProcessCapsLock(s, e) ==
    LET ch == e.keycode
        p == ClearPressed(s)
    IN  IF ch = XK_Caps_Lock
        THEN IF ~e.release
             THEN IF CapsLockDisabled(p)
                  THEN Return(p, kRejected, "caps_suppressed")
                  ELSE Return(
                         SwitchAsciiMode(
                           [p EXCEPT !.toggle_with_caps_ = ~e.caps],
                           CapsTarget(e), caps_lock_switch_style_),
                         kAccepted, "caps_switch")
             ELSE Return(s, kRejected, "caps_release")
        ELSE IF e.caps
        THEN IF /\ ~good_old_caps_lock_ /\ ~e.release /\ ~e.ctrl
                /\ isascii(ch) /\ isalpha(ch)
             THEN Return(CommitText(s, << InvertCase(ch) >>),
                         kAccepted, "caps_commit")
             ELSE Return(s, kRejected, "caps_reject")
        ELSE Return(s, kNoop, "caps_noop")

----------------------------------------------------------------------------
(* AsciiComposer::ProcessKeyEvent *)

\* const auto toggle_duration_limit = std::chrono::milliseconds(500)
toggle_duration_limit == 500

\* now < toggle_expired_
BeforeDeadlineMutInclusive(t, expired) == t <= expired
BeforeDeadline(t, expired) == t < expired

\* the mode a right shift tap switches to
RightShiftTargetMutTrue == TRUE
RightShiftTarget == FALSE

\* "other keys": shift_key_pressed_ = ctrl_key_pressed_ = false
ClearPressedOtherMutSkip(s) == s
ClearPressedOther(s) == ClearPressed(s)

IsShift(ch) == ch = XK_Shift_L \/ ch = XK_Shift_R
IsCtrl(ch) == ch = XK_Control_L \/ ch = XK_Control_R

IsChordMutNoSuper(e) == (e.shift /\ e.ctrl) \/ e.alt
IsChord(e) == (e.shift /\ e.ctrl) \/ e.alt \/ e.super

\* !(shift_key_pressed_ || ctrl_key_pressed_): first key down
IsFirstKeyDownMutAlways(s) == TRUE
IsFirstKeyDown(s) == ~(s.shift_key_pressed_ \/ s.ctrl_key_pressed_)

\* what the branch "if (is_shift || is_ctrl)" returns on each of its paths
ModifierResultMutAccepted == kAccepted
ModifierResult == kNoop

\* the branch "if (is_shift || is_ctrl)", t the reading of the clock
ModifierKey(s, e, t) ==
    LET ch == e.keycode
        pressed == s.shift_key_pressed_ \/ s.ctrl_key_pressed_
        tap == /\ \/ IsShift(ch) /\ s.shift_key_pressed_
                  \/ IsCtrl(ch) /\ s.ctrl_key_pressed_
               /\ BeforeDeadline(t, s.toggle_expired_)
        off == TempAsciiOff(s)
    IN  IF e.release
        THEN IF pressed
             THEN IF tap
                  THEN Return(
                         ClearPressed(
                           IF ch = XK_Shift_R
                           THEN SwitchAsciiMode(off, RightShiftTarget,
                                                kAsciiModeSwitchNoop)
                           ELSE ToggleAsciiModeWithKey(off, ch)),
                         ModifierResult, "tap")
                  ELSE Return(ClearPressed(s), ModifierResult, "release_tracked")
             ELSE Return(s, ModifierResult, "release_untracked")
        ELSE IF IsFirstKeyDown(s)
        THEN Return(
               [(IF IsShift(ch)
                 THEN [s EXCEPT !.shift_key_pressed_ = TRUE]
                 ELSE [off EXCEPT !.ctrl_key_pressed_ = TRUE])
                EXCEPT !.toggle_expired_ = t + toggle_duration_limit],
               ModifierResult, "first_down")
        ELSE Return(s, ModifierResult, "repeat_down")

\* the branch "other keys"
OtherKeysMutNoInlineEdit(s, e) ==
    LET p == ClearPressedOther(s)
    IN  IF p.ascii_mode
        THEN Return(p, kRejected, "direct_commit")
        ELSE TempAsciiProcess(p, e)
OtherKeys(s, e) ==
    LET ch == e.keycode
        p == ClearPressedOther(s)
    IN  IF p.ascii_mode /\ ~IsComposing(p)
        THEN Return(p, kRejected, "direct_commit")
        ELSE IF p.ascii_mode /\ ~e.release /\ ch >= 32 /\ ch < 128
        THEN Return(PushInput(p, ch), kAccepted, "inline_edit")
        ELSE TempAsciiProcess(p, e)

ProcessKeyEvent(s, e, t) ==
    LET ch == e.keycode
        c == IF caps_lock_switch_style_ # kAsciiModeSwitchNoop
             THEN ProcessCapsLock(s, e)
             ELSE Return(s, kNoop, "caps_noop")
    IN  IF IsChord(e)
        THEN Return(TempAsciiOff(ClearPressed(s)), kNoop, "chord")
        ELSE IF c.result # kNoop THEN c
        ELSE IF ch = XK_Eisu_toggle
        THEN IF ~e.release
             THEN Return(ToggleAsciiModeWithKey(ClearPressed(s), ch),
                         kAccepted, "eisu_press")
             ELSE Return(s, kRejected, "eisu_release")
        ELSE IF IsShift(ch) \/ IsCtrl(ch)
        THEN ModifierKey(s, e, t)
        ELSE OtherKeys(s, e)


----------------------------------------------------------------------------
(* Inputs *)

\* the key events the environment delivers (97 'a', 65 'A', 53 '5')
KeyEvents ==
    \* plain presses and releases
    { Press(k) : k \in {97, XK_space, XK_Return,
                        XK_Shift_L, XK_Shift_R, XK_Control_L,
                        XK_Eisu_toggle, XK_Caps_Lock} }
    \cup { Release(k) : k \in {97, XK_Shift_L, XK_Shift_R, XK_Control_L,
                               XK_Eisu_toggle, XK_Caps_Lock} }
    \* with the caps modifier set
    \cup { KeyEvent(k, FALSE, FALSE, FALSE, FALSE, FALSE, TRUE) :
             k \in {97, 65, 53, XK_Caps_Lock} }
    \cup { KeyEvent(k, TRUE, FALSE, FALSE, FALSE, FALSE, TRUE) :
             k \in {97, XK_Caps_Lock} }
    \* with shift or ctrl held
    \cup { KeyEvent(XK_space, FALSE, TRUE, FALSE, FALSE, FALSE, FALSE),
           KeyEvent(97, FALSE, FALSE, TRUE, FALSE, FALSE, FALSE),
           KeyEvent(97, FALSE, FALSE, TRUE, FALSE, FALSE, TRUE) }
    \* shift+ctrl, alt, super
    \cup { KeyEvent(97, FALSE, TRUE, TRUE, FALSE, FALSE, FALSE),
           KeyEvent(XK_Caps_Lock, FALSE, FALSE, FALSE, FALSE, TRUE, FALSE),
           KeyEvent(XK_Shift_L, TRUE, FALSE, FALSE, TRUE, FALSE, FALSE) }

\* a text another component may commit: U+4E2D in UTF-8
Texts == { << 228, 184, 173 >> }

NoKeyEvent == KeyEvent(0, FALSE, FALSE, FALSE, FALSE, FALSE, FALSE)

\* the return paths of ProcessKeyEvent on which the pressed flags are cleared
ClearingBranches ==
    { "chord", "caps_suppressed", "caps_switch", "eisu_press",
      "direct_commit", "inline_edit", "temp_skip", "temp_shift_space",
      "temp_on_composing", "temp_leave", "temp_swallow",
      "temp_off_composing", "temp_pass", "temp_enter" }

----------------------------------------------------------------------------
(* Actions *)

\* the variables take the fields of s
Store(s) ==
    /\ toggle_with_caps_' = s.toggle_with_caps_
    /\ shift_key_pressed_' = s.shift_key_pressed_
    /\ ctrl_key_pressed_' = s.ctrl_key_pressed_
    /\ toggle_expired_' = s.toggle_expired_
    /\ connection_' = s.connection_
    /\ ascii_mode' = s.ascii_mode
    /\ temp_ascii' = s.temp_ascii
    /\ input' = s.input
    /\ confirmed' = s.confirmed
    /\ commit_history' = s.commit_history
    /\ slots' = s.slots
    /\ commit_text' = s.commit_text
    /\ committed' = s.committed
    /\ result' = s.result
    /\ branch' = s.branch

\* the state an operation starts from: nothing committed yet
Fresh == [State EXCEPT !.commit_text = << >>, !.committed = << >>]

Config == << bindings_, caps_lock_switch_style_, good_old_caps_lock_,
            ticket_schema >>
\* caps_run when the last key answered was not a Caps Lock press (or the
\* release that follows one); otherwise caps_run holds ascii_mode before
\* that press, the press's caps flag, whether it was suppressed, and the
\* first two of these for the Caps Lock press before it, if there was one
NoCapsRun == << >>

Observed == << key_event, down_at, caps_run, since_down >>
Composer == << toggle_with_caps_, shift_key_pressed_, ctrl_key_pressed_,
               toggle_expired_, connection_ >>
Context == << ascii_mode, temp_ascii, input, confirmed, commit_history, slots >>
Answer == << result, branch, commit_text, committed >>

\* AsciiComposer::AsciiComposer with ticket.schema = sch
Constructed(sch) ==
    /\ ticket_schema = sch
    /\ bindings_ = LoadConfig(sch).bindings
    /\ caps_lock_switch_style_ = LoadConfig(sch).caps_lock_switch_style
    /\ good_old_caps_lock_ = LoadConfig(sch).good_old_caps_lock
    /\ toggle_with_caps_ = FALSE
    /\ shift_key_pressed_ = FALSE
    /\ ctrl_key_pressed_ = FALSE
    /\ toggle_expired_ = 0
    /\ connection_ = FALSE
    /\ ascii_mode = FALSE
    /\ temp_ascii = FALSE
    /\ input = << >>
    /\ confirmed = FALSE
    /\ commit_history = << >>
    /\ slots = 0
    /\ commit_text = << >>
    /\ committed = << >>
    /\ now = 0
    /\ alive = TRUE
    /\ key_event = NoKeyEvent
    /\ result = kNoop
    /\ branch = "none"
    /\ down_at = 0
    /\ caps_run = NoCapsRun
    /\ since_down = "idle"

Init == \E sch \in Schemas : Constructed(sch)

\* the engine hands a key event to the composer
KeyStep(e) ==
    /\ alive
    /\ LET r == ProcessKeyEvent(Fresh, e, now)
       IN  /\ Len(r.input) <= MaxInput
           /\ Len(r.commit_history) <= MaxHistory
           /\ Store(r)
           /\ down_at' = IF r.branch = "first_down" THEN now ELSE down_at
           /\ caps_run' =
                IF r.branch \in {"caps_switch", "caps_suppressed"}
                THEN << ascii_mode, e.caps, r.branch = "caps_suppressed",
                        IF caps_run = NoCapsRun THEN << >>
                        ELSE << caps_run[1], caps_run[2] >> >>
                ELSE IF r.branch = "caps_release" /\ e.keycode = XK_Caps_Lock
                THEN caps_run
                ELSE NoCapsRun
           /\ since_down' =
                IF r.branch = "first_down" THEN "none"
                ELSE IF since_down = "idle" THEN "idle"
                ELSE IF IsShift(e.keycode) \/ IsCtrl(e.keycode) THEN since_down
                ELSE IF r.branch \in ClearingBranches THEN "cleared"
                ELSE IF since_down = "cleared" THEN "cleared"
                ELSE "swallowed"
    /\ key_event' = e
    /\ UNCHANGED << Config, now, alive >>

\* the clock advances
Tick(d) ==
    /\ alive
    /\ now + d <= MaxNow
    /\ now' = now + d
    /\ UNCHANGED << Config, Observed, Composer, Context, Answer, alive >>

\* an operation outside ProcessKeyEvent takes the state to s: no key event
\* is being answered
OtherStep(s) ==
    /\ Store([s EXCEPT !.result = kNoop, !.branch = "none",
                       !.commit_text = << >>, !.committed = << >>])
    /\ key_event' = NoKeyEvent
    /\ caps_run' = NoCapsRun
    /\ UNCHANGED << Config, down_at, since_down, now >>

\* another processor takes a key into the composition; the context notifies
Compose ==
    /\ alive
    /\ Len(input) < MaxInput
    /\ OtherStep(PushInput(State, 97))
    /\ UNCHANGED alive

\* the composition ends (committed or cancelled elsewhere); the context notifies
EndComposition ==
    /\ alive
    /\ input # << >>
    /\ OtherStep(Clear(State))
    /\ UNCHANGED alive

\* the engine records a committed text in the commit history
RecordCommit(text) ==
    /\ alive
    /\ Len(commit_history) < MaxHistory
    /\ OtherStep([State EXCEPT !.commit_history = Append(@, text)])
    /\ UNCHANGED alive

\* AsciiComposer::~AsciiComposer
Destroy ==
    /\ alive
    /\ alive' = FALSE
    /\ OtherStep(Disconnect(State))

\* a step that answers a key event
IsKeyStep == key_event' # NoKeyEvent /\ now' = now

Next ==
    \/ \E e \in KeyEvents : KeyStep(e)
    \/ Compose
    \/ EndComposition
    \/ \E text \in Texts : RecordCommit(text)
    \/ Destroy

Spec == Init /\ [][Next]_vars

\* the same with a clock, for the keys of the tap gesture
ClockEvents ==
    { Press(k) : k \in {XK_Shift_L, XK_Shift_R, XK_Control_L, 97} }
    \cup { Release(k) : k \in {XK_Shift_L, XK_Shift_R, XK_Control_L} }
    \cup { KeyEvent(XK_Shift_L, TRUE, TRUE, FALSE, FALSE, FALSE, FALSE),
           Press(XK_Eisu_toggle), Press(XK_Caps_Lock) }

NextClock ==
    \/ \E e \in ClockEvents : KeyStep(e)
    \/ \E d \in Deltas : Tick(d)
    \/ Compose
    \/ EndComposition

SpecClock == Init /\ [][NextClock]_vars


----------------------------------------------------------------------------
(* TempAsciiProcess alone, over every printable key: the context is drawn  *)
(* from the states it can be in, and each step hands it one key event.     *)

XK_Escape == 65307

\* every key from space to tilde, DEL, no-break space and some function keys
TempKeys ==
    (XK_space .. XK_asciitilde)
    \cup {127, 160, XK_Return, XK_BackSpace, XK_Delete, XK_Escape}

TempEvents ==
    { Press(k) : k \in TempKeys }
    \cup { Release(k) : k \in {97, 65, XK_Return} }
    \cup { KeyEvent(k, FALSE, TRUE, FALSE, FALSE, FALSE, FALSE) :
             k \in {XK_space, 65} }

\* latest texts: "a~", " ", "a\n", DEL, U+4E2D in UTF-8
TempTexts == Texts \cup { << 97, 126 >>, << 32 >>, << 97, 10 >>, << 127 >> }

InitTemp ==
    /\ ticket_schema = SchemaNull
    /\ bindings_ = LoadConfig(SchemaNull).bindings
    /\ caps_lock_switch_style_ = LoadConfig(SchemaNull).caps_lock_switch_style
    /\ good_old_caps_lock_ = LoadConfig(SchemaNull).good_old_caps_lock
    /\ toggle_with_caps_ = FALSE
    /\ shift_key_pressed_ = FALSE
    /\ ctrl_key_pressed_ = FALSE
    /\ toggle_expired_ = 0
    /\ connection_ = FALSE
    /\ ascii_mode \in BOOLEAN
    /\ temp_ascii \in BOOLEAN
    /\ input \in { << >>, << 97 >> }
    /\ confirmed = FALSE
    /\ commit_history \in { << >> } \cup { << text >> : text \in TempTexts }
    /\ slots = 0
    /\ commit_text = << >>
    /\ committed = << >>
    /\ now = 0
    /\ alive = TRUE
    /\ key_event = NoKeyEvent
    /\ result = kNoop
    /\ branch = "none"
    /\ down_at = 0
    /\ caps_run = NoCapsRun
    /\ since_down = "idle"

TempStep(e) ==
    /\ Store(TempAsciiProcess(Fresh, e))
    /\ key_event' = e
    /\ UNCHANGED << Config, down_at, caps_run, since_down, now, alive >>

NextTemp == \E e \in TempEvents : TempStep(e)

SpecTemp == InitTemp /\ [][NextTemp]_vars


----------------------------------------------------------------------------
(* LoadConfig alone: the composer is constructed again and again, each     *)
(* time with a schema whose switch_key map is a selection of EntryPool.    *)

\* entries of a switch_key map, in the order of their keys
EntryPool ==
    << Entry(<<"Caps_Lock">>, "inline_ascii"),
       Entry(<<"Control", "space">>, "commit_text"),
       Entry(<<"Control_L">>, "no_such_style"),
       [key |-> <<"Eisu_toggle">>, scalar |-> FALSE, value |-> "clear"],
       Entry(<<"Release", "Shift_L">>, "clear"),
       Entry(<<"Shift_L">>, "commit_code"),
       Entry(<<"Shift_R">>, "noop"),
       Entry(<<"bogus">>, "clear"),
       Entry(<<"space">>, "commit_text") >>

\* the entries of EntryPool at the positions in S, from position i on
RECURSIVE PickEntries(_, _)
PickEntries(i, S) ==
    IF i > Len(EntryPool) THEN << >>
    ELSE (IF i \in S THEN << EntryPool[i] >> ELSE << >>)
         \o PickEntries(i + 1, S)

ConfigSchemas ==
    { [present |-> TRUE, preset |-> pre,
       good_old |-> "unset", preset_good_old |-> "true",
       has_map |-> has, map |-> PickEntries(1, S),
       preset_has_map |-> TRUE,
       preset_map |-> << Entry(<<"Control", "Shift_R">>, "clear"),
                         Entry(<<"Control_R">>, "inline_ascii"),
                         Entry(<<"Shift_R">>, "noop") >>] :
        pre \in BOOLEAN, has \in BOOLEAN, S \in SUBSET (1..Len(EntryPool)) }
    \cup Schemas

InitConfig == Constructed(SchemaNull)

\* the composer is constructed anew with ticket.schema = sch
Construct(sch) ==
    /\ ticket_schema' = sch
    /\ bindings_' = LoadConfig(sch).bindings
    /\ caps_lock_switch_style_' = LoadConfig(sch).caps_lock_switch_style
    /\ good_old_caps_lock_' = LoadConfig(sch).good_old_caps_lock
    /\ UNCHANGED << Observed, Composer, Context, Answer, now, alive >>

NextConfig == \E sch \in ConfigSchemas : Construct(sch)

SpecConfig == InitConfig /\ [][NextConfig]_vars

----------------------------------------------------------------------------
(* Key events with shift+ctrl, alt or super, among the keys that start the *)
(* tracker, enter temp_ascii and switch ascii_mode.                        *)

ChordKeys == {97, XK_Caps_Lock, XK_Eisu_toggle, XK_Shift_L, XK_Control_L}

ChordEvents ==
    { Press(k) : k \in {XK_space, XK_Shift_L, XK_Control_L,
                        XK_Eisu_toggle, XK_Caps_Lock} }
    \cup { Release(XK_Shift_L) }
    \* shift+ctrl; alt; super; alt with the caps modifier
    \cup { KeyEvent(k, rel, TRUE, TRUE, FALSE, FALSE, FALSE) :
             k \in ChordKeys, rel \in BOOLEAN }
    \cup { KeyEvent(k, rel, FALSE, FALSE, TRUE, FALSE, FALSE) :
             k \in ChordKeys, rel \in BOOLEAN }
    \cup { KeyEvent(k, rel, FALSE, FALSE, FALSE, TRUE, FALSE) :
             k \in ChordKeys, rel \in BOOLEAN }
    \cup { KeyEvent(k, rel, FALSE, FALSE, TRUE, FALSE, TRUE) :
             k \in ChordKeys, rel \in BOOLEAN }

NextChord ==
    \/ \E e \in ChordEvents : KeyStep(e)
    \/ Compose
    \/ EndComposition
    \/ \E text \in Texts : RecordCommit(text)

SpecChord == Init /\ [][NextChord]_vars

----------------------------------------------------------------------------
(* Properties *)

\* the key event answered by the step
ev == key_event'

IsLetter(ch) == (65 <= ch /\ ch <= 90) \/ (97 <= ch /\ ch <= 122)

\* a step that releases shift key k, flags ctrl/alt/super/caps clear, right
\* after the press of k that started tracking: no key event in between
ShiftTapStep(k) ==
    /\ IsKeyStep
    /\ branch = "first_down"
    /\ key_event = Press(k)
    /\ ev.keycode = k /\ ev.release
    /\ ~ev.ctrl /\ ~ev.alt /\ ~ev.super /\ ~ev.caps

\* C1 as stated: a tap of either shift key, released less than 500 ms after
\* the press, toggles ascii_mode when the key is bound; released 600 ms
\* after the press it leaves ascii_mode as it was.
C1_Original ==
    [][\A k \in {XK_Shift_L, XK_Shift_R} :
         ShiftTapStep(k) =>
           /\ (k \in DOMAIN bindings_ /\ now - down_at < 500)
                => ascii_mode' = ~ascii_mode
           /\ (now - down_at = 600) => ascii_mode' = ascii_mode]_vars

\* C1 amended: a tap of the left shift key, released less than 500 ms after
\* the press, toggles ascii_mode when the key is bound; a tap of the right
\* shift key released in that time sets ascii_mode to false instead; a
\* release 600 ms after the press leaves ascii_mode as it was.
C1_ShiftTap ==
    [][/\ ShiftTapStep(XK_Shift_L) =>
            /\ (XK_Shift_L \in DOMAIN bindings_ /\ now - down_at < 500)
                 => ascii_mode' = ~ascii_mode
            /\ (now - down_at = 600) => ascii_mode' = ascii_mode
       /\ ShiftTapStep(XK_Shift_R) =>
            /\ (now - down_at < 500) => ascii_mode' = FALSE
            /\ (now - down_at = 600) => ascii_mode' = ascii_mode]_vars

\* a left shift tap released 499 ms after the press has switched ascii on
C1_Witness ==
    /\ key_event = Release(XK_Shift_L)
    /\ branch = "tap"
    /\ now - down_at = 499
    /\ XK_Shift_L \in DOMAIN bindings_
    /\ ascii_mode

\* a step that answers the release of the right shift key as a tap: shift
\* is tracked and the deadline has not passed
RightShiftTapStep ==
    /\ IsKeyStep
    /\ shift_key_pressed_
    /\ now < toggle_expired_
    /\ ev.keycode = XK_Shift_R /\ ev.release
    /\ branch' = "tap"

\* the Noop style: the composition is left alone, nothing is committed and
\* no subscription is installed
NoopStyleStep ==
    /\ input' = input
    /\ confirmed' = confirmed
    /\ committed' = << >>
    /\ commit_text' = << >>
    /\ slots' <= slots

\* C2 as stated: a right shift tap forces ascii_mode to true, with the Noop
\* style.
C2_Original ==
    [][RightShiftTapStep => ascii_mode' = TRUE /\ NoopStyleStep]_vars

\* C2 amended: a right shift tap forces ascii_mode to false, with the Noop
\* style, whatever ascii_mode was and whatever the bindings hold for the key.
C2_RightShiftTap ==
    [][RightShiftTapStep => ascii_mode' = FALSE /\ NoopStyleStep]_vars

\* a right shift tap, the key bound to commit_text, taken while composing:
\* ascii_mode is off and the selection is not confirmed
C2_Witness ==
    /\ key_event = Release(XK_Shift_R)
    /\ branch = "tap"
    /\ XK_Shift_R \in DOMAIN bindings_
    /\ bindings_[XK_Shift_R] = kAsciiModeSwitchCommitText
    /\ input # << >>
    /\ ~confirmed
    /\ ~ascii_mode

\* a step that answers a Caps Lock press in the caps lock handler, under the
\* good old caps lock, after another such press with nothing but the release
\* of Caps Lock in between; the caps flag is the opposite of the first's
SecondCapsPressStep ==
    /\ IsKeyStep
    /\ good_old_caps_lock_
    /\ caps_lock_switch_style_ # kAsciiModeSwitchNoop
    /\ caps_run # NoCapsRun
    /\ ev.keycode = XK_Caps_Lock /\ ~ev.release
    /\ ev.caps = ~caps_run[2]
    /\ branch' \in {"caps_switch", "caps_suppressed"}

\* C3 as stated: two consecutive Caps Lock presses leave ascii_mode as it
\* was before the first, whatever ascii_mode, toggle_with_caps and the caps
\* flag were at the first.
C3_Original ==
    [][SecondCapsPressStep => ascii_mode' = caps_run[1]]_vars

\* C3 amended: two consecutive Caps Lock presses leave ascii_mode as it was
\* before the first when the first was suppressed (ascii_mode on and
\* toggle_with_caps off), or when the caps flag of the first press equals
\* the ascii_mode it started from; otherwise ascii_mode ends as the
\* negation of what it was.
C3_CapsAlternation ==
    [][SecondCapsPressStep =>
         ascii_mode' = IF caps_run[3] \/ caps_run[2] = caps_run[1]
                       THEN caps_run[1]
                       ELSE ~caps_run[1]]_vars

\* the second of two presses, caps flag set then clear, has switched ascii
\* mode on again after the first switched it off
C3_Witness ==
    /\ good_old_caps_lock_
    /\ branch = "caps_switch"
    /\ key_event = Press(XK_Caps_Lock)
    /\ caps_run = << FALSE, FALSE, FALSE, << TRUE, TRUE >> >>
    /\ ascii_mode

\* a step that answers a key other than Caps Lock carrying the caps
\* modifier, without good old caps lock
CapsModifierStep ==
    /\ IsKeyStep
    /\ ~good_old_caps_lock_
    /\ caps_lock_switch_style_ # kAsciiModeSwitchNoop
    /\ ev.caps
    /\ ~((ev.shift /\ ev.ctrl) \/ ev.alt \/ ev.super)
    /\ ev.keycode # XK_Caps_Lock

\* C4: such a press of a letter without ctrl commits the letter in the other
\* case and is accepted, the composition untouched; every other such event
\* is rejected and commits nothing; the two options stay.
C4_CapsLetter ==
    [][CapsModifierStep =>
         /\ IF ~ev.release /\ ~ev.ctrl /\ IsLetter(ev.keycode)
            THEN /\ commit_text' =
                      << IF ev.keycode >= 97 THEN ev.keycode - 32
                                             ELSE ev.keycode + 32 >>
                 /\ result' = kAccepted
                 /\ input' = input
            ELSE /\ result' = kRejected
                 /\ commit_text' = << >>
         /\ committed' = << >>
         /\ ascii_mode' = ascii_mode
         /\ temp_ascii' = temp_ascii]_vars

\* 'a' pressed under the caps modifier has committed "A"
C4_Witness ==
    /\ ~good_old_caps_lock_
    /\ key_event = KeyEvent(97, FALSE, FALSE, FALSE, FALSE, FALSE, TRUE)
    /\ commit_text = << 65 >>
    /\ result = kAccepted

\* C5: with temp_ascii set and a composition in progress, a key event that
\* is no release and neither BackSpace nor Delete is ignored by
\* TempAsciiProcess: temp_ascii, ascii_mode and the commit history stay.
C5_OnComposingIgnored ==
    [][(/\ IsKeyStep
        /\ temp_ascii /\ input # << >>
        /\ ~ev.release
        /\ ev.keycode \notin {XK_BackSpace, XK_Delete})
       => /\ result' = kNoop
          /\ temp_ascii' = temp_ascii
          /\ ascii_mode' = ascii_mode
          /\ commit_history' = commit_history]_vars

\* Return was ignored in the middle of a composition with temp_ascii set
C5_Witness ==
    /\ key_event = Press(XK_Return)
    /\ temp_ascii /\ input # << >>
    /\ commit_history # << >>
    /\ result = kNoop

\* C6 as stated: a step that turns temp_ascii on or off leaves the commit
\* history empty in the resulting state.
C6_Original ==
    [][temp_ascii' # temp_ascii => commit_history' = << >>]_vars

\* C6 amended: a step that turns temp_ascii on or off leaves no record in the
\* commit history that was there before the step: the history is empty in
\* the resulting state, or holds just the text the composition committed
\* later in the same step (a tap bound to commit_code, taken while
\* composing).
C6_HistoryCleared ==
    [][temp_ascii' # temp_ascii =>
         /\ commit_text' = << >>
         /\ commit_history' =
              IF committed' = << >> THEN << >> ELSE << committed' >>]_vars

\* space has left temp_ascii, and the history is empty
C6_Witness ==
    /\ key_event = Press(XK_space)
    /\ branch = "temp_leave"
    /\ ~temp_ascii
    /\ commit_history = << >>

\* every byte of the latest committed text is from space to tilde
LatestIsPrintableAscii ==
    \/ commit_history = << >>
    \/ LET text == commit_history[Len(commit_history)]
       IN  \A i \in 1..Len(text) : 32 <= text[i] /\ text[i] <= 126

\* C7: with temp_ascii off and a composition in progress, a key press sets
\* temp_ascii exactly when it is Return and the latest committed text is all
\* printable ASCII; otherwise no option changes; the press is ignored.
C7_ReturnEnters ==
    [][(/\ IsKeyStep
        /\ ~temp_ascii /\ input # << >>
        /\ ~ev.release)
       => /\ temp_ascii' = (ev.keycode = XK_Return /\ LatestIsPrintableAscii)
          /\ ascii_mode' = ascii_mode
          /\ result' = kNoop]_vars

\* Return after the text "a~" has entered temp_ascii while composing
C7_Witness ==
    /\ key_event = Press(XK_Return)
    /\ branch = "temp_off_composing"
    /\ temp_ascii
    /\ input # << >>

\* , ^ \ " ! ? ;  and  . ' < > : ( ) [ ] { }
C8_Triggers ==
    {44, 94, 92, 34, 33, 63, 59}
    \cup {46, 39, 60, 62, 58, 40, 41, 91, 93, 123, 125}

\* C8: with temp_ascii and ascii_mode off and nothing composed, a key press
\* (not BackSpace, Delete or shift+space) is ignored with temp_ascii left
\* off when the key is a-z, not printable or a transform trigger; any other
\* key sets temp_ascii and is rejected.
C8_OffIdle ==
    [][(/\ IsKeyStep
        /\ ~temp_ascii /\ ~ascii_mode /\ input = << >>
        /\ ~ev.release
        /\ ev.keycode \notin {XK_BackSpace, XK_Delete}
        /\ ~(ev.keycode = XK_space /\ ev.shift))
       => IF \/ (97 <= ev.keycode /\ ev.keycode <= 122)
             \/ ~(32 <= ev.keycode /\ ev.keycode <= 126)
             \/ ev.keycode \in C8_Triggers
          THEN result' = kNoop /\ ~temp_ascii'
          ELSE result' = kRejected /\ temp_ascii']_vars

\* the double quote, a mandatory trigger, passed through with temp_ascii off
C8_Witness ==
    /\ key_event = Press(34)
    /\ branch = "temp_pass"
    /\ ~temp_ascii /\ ~ascii_mode /\ input = << >>
    /\ result = kNoop

\* C9: at most one subscription of the composer is alive; one is alive only
\* while connection_ holds it and a composition is in progress; none is
\* alive after the composer is destroyed.
C9_OneSubscription ==
    /\ slots <= 1
    /\ slots = 1 => connection_ /\ input # << >>
    /\ ~alive => slots = 0

\* an inline switch has installed the subscription
C9_Witness ==
    /\ slots = 1
    /\ connection_
    /\ ascii_mode
    /\ branch \in {"tap", "eisu_press"}

\* a step that answers the release of shift or ctrl
ModifierReleaseStep ==
    /\ IsKeyStep
    /\ ev.release
    /\ IsShift(ev.keycode) \/ IsCtrl(ev.keycode)

\* C10 as stated: once a key that is neither shift nor ctrl has been
\* answered after the first key down, the release of shift or ctrl does not
\* change ascii_mode.
C10_Original ==
    [][(ModifierReleaseStep /\ since_down \in {"swallowed", "cleared"})
       => ascii_mode' = ascii_mode]_vars

\* C10 amended: once a key that is neither shift nor ctrl has been answered
\* after the first key down on a path that clears the pressed flags (every
\* path but the caps lock handler's rejections and commits and the release
\* of the alphanumeric toggle), the release of shift or ctrl does not change
\* ascii_mode.
C10_ChordNoToggle ==
    [][(ModifierReleaseStep /\ since_down = "cleared")
       => ascii_mode' = ascii_mode]_vars

\* shift was released after shift down, then 'a': no tap
C10_Witness ==
    /\ key_event = Release(XK_Shift_L)
    /\ since_down = "cleared"
    /\ branch = "release_untracked"
    /\ XK_Shift_L \in DOMAIN bindings_
    /\ now < toggle_expired_

\* the switch_key map LoadConfig reads: the schema's, else the preset's
MapRead ==
    IF ~ticket_schema.present THEN << >>
    ELSE IF ticket_schema.has_map THEN ticket_schema.map
    ELSE IF ticket_schema.preset /\ ticket_schema.preset_has_map
         THEN ticket_schema.preset_map
    ELSE << >>

\* the names of the four styles that are not Noop
C11_StyleNames == {"inline_ascii", "commit_text", "commit_code", "clear"}

\* an entry whose key string names a key without any modifier and whose value
\* names a style other than Noop
C11_Accepted(entry) ==
    /\ entry.scalar
    /\ Len(entry.key) = 1
    /\ entry.key[1] \in DOMAIN KeyNames
    /\ entry.value \in C11_StyleNames

\* C11: after a configuration load no binding has the style Noop, and every
\* binding comes from an entry of the map read whose key string parsed, had
\* no modifier, and whose value names a style: an entry with a modifier, an
\* unparsable key, or a Noop or unknown style name leaves no binding.
C11_OnlyPlainKeysBound ==
    \A k \in DOMAIN bindings_ :
        /\ bindings_[k] # kAsciiModeSwitchNoop
        /\ \E i \in 1..Len(MapRead) :
              /\ C11_Accepted(MapRead[i])
              /\ KeyNames[MapRead[i].key[1]] = k
              /\ StyleOf(MapRead[i].value) = bindings_[k]

\* a map with "Control+space", "Release+Shift_L", "Shift_L", "Shift_R: noop"
\* and "bogus" was loaded: only Shift_L is bound
C11_Witness ==
    /\ ticket_schema.has_map
    /\ ticket_schema.map = PickEntries(1, {2, 5, 6, 7, 8})
    /\ DOMAIN bindings_ = {XK_Shift_L}
    /\ bindings_[XK_Shift_L] = kAsciiModeSwitchCommitCode

\* C12: a key event with shift and ctrl, or alt, or super set is answered
\* before every other rule: both pressed flags are cleared, temp_ascii is
\* off, the commit history is empty and the result is kNoop; ascii_mode,
\* toggle_with_caps_, the composition and the subscription stay, and nothing
\* is committed.
C12_ChordFirst ==
    [][(IsKeyStep /\ ((ev.shift /\ ev.ctrl) \/ ev.alt \/ ev.super))
       => /\ ~shift_key_pressed_' /\ ~ctrl_key_pressed_'
          /\ ~temp_ascii'
          /\ commit_history' = << >>
          /\ result' = kNoop
          /\ ascii_mode' = ascii_mode
          /\ toggle_with_caps_' = toggle_with_caps_
          /\ input' = input /\ confirmed' = confirmed
          /\ connection_' = connection_ /\ slots' = slots
          /\ commit_text' = << >> /\ committed' = << >>]_vars

\* super+Caps Lock was pressed with ascii mode on and the subscription
\* alive: both are as they were
C12_Witness ==
    /\ key_event = KeyEvent(XK_Caps_Lock, FALSE, FALSE, FALSE, FALSE, TRUE, FALSE)
    /\ branch = "chord"
    /\ caps_lock_switch_style_ # kAsciiModeSwitchNoop
    /\ ascii_mode
    /\ slots = 1
    /\ result = kNoop

\* the step executes a mode switch: a tap, a press of the alphanumeric
\* toggle key or a Caps Lock press that is not suppressed, the key bound
\* (the right shift needs no binding)
SwitchStep ==
    /\ IsKeyStep
    /\ \/ branch' = "caps_switch"
       \/ /\ branch' \in {"tap", "eisu_press"}
          /\ ev.keycode = XK_Shift_R \/ ev.keycode \in DOMAIN bindings_

\* the target value the step's mode switch is given
SwitchTarget ==
    IF branch' = "caps_switch" THEN ~ev.caps
    ELSE IF ev.keycode = XK_Shift_R THEN FALSE
    ELSE ~ascii_mode

\* the style the step's mode switch is given
SwitchStyle ==
    IF branch' = "caps_switch" THEN caps_lock_switch_style_
    ELSE IF ev.keycode = XK_Shift_R THEN kAsciiModeSwitchNoop
    ELSE bindings_[ev.keycode]

\* C13: a mode switch with target t and style s ends with ascii_mode = t.
\* While composing, no subscription from before is left and the style's
\* effect is applied: commit_text confirms the selection, commit_code
\* commits the composition, clear discards it, noop leaves it.  While not
\* composing, the composition and the subscription are left alone.
C13_SwitchEffect ==
    [][SwitchStep =>
         /\ ascii_mode' = SwitchTarget
         /\ commit_text' = << >>
         /\ IF input = << >>
            THEN /\ input' = input /\ confirmed' = confirmed
                 /\ committed' = << >>
                 /\ slots' = slots /\ connection_' = connection_
            ELSE CASE SwitchStyle = kAsciiModeSwitchCommitText ->
                        /\ confirmed' /\ input' = input /\ committed' = << >>
                        /\ slots' = 0 /\ ~connection_'
                   [] SwitchStyle = kAsciiModeSwitchCommitCode ->
                        /\ committed' = input /\ input' = << >>
                        /\ slots' = 0 /\ ~connection_'
                   [] SwitchStyle = kAsciiModeSwitchClear ->
                        /\ input' = << >> /\ committed' = << >>
                        /\ slots' = 0 /\ ~connection_'
                   [] SwitchStyle = kAsciiModeSwitchNoop ->
                        /\ input' = input /\ confirmed' = confirmed
                        /\ committed' = << >>
                        /\ slots' = 0 /\ ~connection_'
                   [] OTHER -> input' = input /\ committed' = << >>]_vars

\* a left ctrl tap bound to commit_code has committed the composition and
\* switched ascii mode on
C13_Witness ==
    /\ key_event = Release(XK_Control_L)
    /\ branch = "tap"
    /\ XK_Control_L \in DOMAIN bindings_
    /\ bindings_[XK_Control_L] = kAsciiModeSwitchCommitCode
    /\ committed # << >>
    /\ input = << >>
    /\ ascii_mode

\* a step that executes a mode switch with the inline_ascii style while a
\* composition is in progress
InlineSwitchStep ==
    /\ SwitchStep
    /\ SwitchStyle = kAsciiModeSwitchInline
    /\ input # << >>

\* a step in which the context notifies of a changed composition while the
\* subscription is alive, and which executes no mode switch
NotifiedStep ==
    /\ slots = 1
    /\ input' # input
    /\ ~SwitchStep

\* what the subscription does when notified
CallbackEffect ==
    IF input' = << >>
    THEN ascii_mode' = FALSE /\ slots' = 0 /\ ~connection_'
    ELSE ascii_mode' = ascii_mode /\ slots' = 1 /\ connection_'

\* C14 as stated: an inline_ascii switch while composing installs a new
\* subscription, for either target value; notified of an empty composition
\* the subscription sets ascii_mode to false and cancels itself, notified of
\* a non-empty one it changes nothing and stays.
C14_Original ==
    [][/\ InlineSwitchStep => slots' = 1 /\ connection_'
       /\ NotifiedStep => CallbackEffect]_vars

\* C14 amended: an inline_ascii switch while composing installs a new
\* subscription when its target is true; when its target is false it only
\* cancels the subscription alive before.  Notified of an empty composition
\* the subscription sets ascii_mode to false and cancels itself, notified of
\* a non-empty one it changes nothing and stays.
C14_InlineSubscription ==
    [][/\ InlineSwitchStep =>
            IF SwitchTarget THEN slots' = 1 /\ connection_'
                            ELSE slots' = 0 /\ ~connection_'
       /\ NotifiedStep => CallbackEffect]_vars

\* a left shift tap bound to inline_ascii, taken while composing in ascii
\* mode, has switched to native mode and left no subscription
C14_Witness ==
    /\ key_event = Release(XK_Shift_L)
    /\ branch = "tap"
    /\ XK_Shift_L \in DOMAIN bindings_
    /\ bindings_[XK_Shift_L] = kAsciiModeSwitchInline
    /\ input # << >>
    /\ ~ascii_mode
    /\ slots = 0 /\ ~connection_

\* a Caps Lock key event answered while good_old_caps_lock_ is true and
\* caps_lock_switch_style_ is not Noop
GoodOldCapsLockStep ==
    /\ IsKeyStep
    /\ ev.keycode = XK_Caps_Lock
    /\ good_old_caps_lock_
    /\ caps_lock_switch_style_ # kAsciiModeSwitchNoop

\* what the claim states of such an event: a press in ascii mode not entered
\* by Caps Lock is rejected and keeps the mode, toggle_with_caps_, temp_ascii
\* and the composition; a release is rejected and changes nothing
CapsLockRejected ==
    /\ (~ev.release /\ ascii_mode /\ ~toggle_with_caps_) =>
            /\ result' = kRejected
            /\ UNCHANGED << ascii_mode, toggle_with_caps_, temp_ascii, input,
                            confirmed >>
    /\ ev.release =>
            /\ result' = kRejected
            /\ UNCHANGED << Composer, Context, Config >>

\* C15 as stated: with good_old_caps_lock_ true and a style other than Noop,
\* every Caps Lock press in ascii mode with toggle_with_caps_ false is
\* rejected and leaves ascii_mode, toggle_with_caps_, temp_ascii and the
\* composition unchanged, and every Caps Lock release is rejected with no
\* state change.
C15_Original ==
    [][GoodOldCapsLockStep => CapsLockRejected]_vars

\* C15 amended: the same, for the Caps Lock events that are not part of a
\* shift+ctrl, alt or super chord (a chord is answered before the caps lock
\* handler is asked).
C15_CapsLockSuppressed ==
    [][(GoodOldCapsLockStep /\ ~IsChord(ev)) => CapsLockRejected]_vars

\* a Caps Lock press has been suppressed: ascii mode, entered by a left
\* shift tap, is still on and toggle_with_caps_ still false
C15_Witness ==
    /\ key_event = Press(XK_Caps_Lock)
    /\ branch = "caps_suppressed"
    /\ result = kRejected
    /\ good_old_caps_lock_
    /\ ascii_mode
    /\ ~toggle_with_caps_

\* , ^ \ " ! ? ;
C16_Mandatory == {44, 94, 92, 34, 33, 63, 59}

\* C16: with temp_ascii set and nothing composed, a key press (not BackSpace,
\* Delete or shift+space) that is space, not printable or one of , ^ \ " ! ? ;
\* clears temp_ascii and the commit history and is ignored; any other key,
\* the optional triggers among them, is rejected and leaves temp_ascii set.
C16_OnIdle ==
    [][(/\ IsKeyStep
        /\ temp_ascii /\ input = << >>
        /\ ~ev.release
        /\ ev.keycode \notin {XK_BackSpace, XK_Delete}
        /\ ~(ev.keycode = XK_space /\ ev.shift))
       => IF \/ ev.keycode = 32
             \/ ~(32 <= ev.keycode /\ ev.keycode <= 126)
             \/ ev.keycode \in C16_Mandatory
          THEN /\ ~temp_ascii'
               /\ commit_history' = << >>
               /\ result' = kNoop
          ELSE /\ temp_ascii'
               /\ result' = kRejected]_vars

\* the full stop, an optional trigger, was rejected with temp_ascii left set
C16_Witness ==
    /\ key_event = Press(46)
    /\ branch = "temp_swallow"
    /\ temp_ascii /\ input = << >>
    /\ result = kRejected

\* a key event that reaches the branch "other keys": no shift+ctrl, alt or
\* super chord, not answered by the caps lock handler, not the alphanumeric
\* toggle key, not shift or ctrl
OtherKeyStep ==
    /\ IsKeyStep
    /\ ~((ev.shift /\ ev.ctrl) \/ ev.alt \/ ev.super)
    /\ \/ caps_lock_switch_style_ = kAsciiModeSwitchNoop
       \/ (ev.keycode # XK_Caps_Lock /\ ~ev.caps)
    /\ ev.keycode \notin {XK_Eisu_toggle, XK_Shift_L, XK_Shift_R,
                          XK_Control_L, XK_Control_R}

\* the return paths inside TempAsciiProcess
TempBranches ==
    { "temp_skip", "temp_shift_space", "temp_on_composing", "temp_leave",
      "temp_swallow", "temp_off_composing", "temp_pass", "temp_enter" }

\* the tracked flags are cleared; in ascii mode a key is rejected with
\* temp_ascii, ascii_mode and the commit history unchanged when nothing is
\* composed, and a printable key press is appended once and accepted when
\* composing
OtherKeysInAsciiMode ==
    /\ ~shift_key_pressed_' /\ ~ctrl_key_pressed_'
    /\ (ascii_mode /\ input = << >>) =>
            /\ result' = kRejected
            /\ UNCHANGED << temp_ascii, ascii_mode, commit_history, input >>
    /\ (ascii_mode /\ input # << >> /\ ~ev.release
          /\ 32 <= ev.keycode /\ ev.keycode <= 126) =>
            /\ input' = Append(input, ev.keycode)
            /\ result' = kAccepted

\* C17 as stated: on the other-keys branch both tracked flags are cleared;
\* in ascii mode a key is rejected without a change when nothing is
\* composed, a printable key is appended and accepted when composing; and
\* TempAsciiProcess is consulted only when ascii_mode is false.
C17_Original ==
    [][OtherKeyStep =>
         /\ OtherKeysInAsciiMode
         /\ branch' \in TempBranches => ~ascii_mode]_vars

\* C17 amended: the same, but TempAsciiProcess is consulted when ascii_mode
\* is false and also when ascii_mode is true, a composition is in progress
\* and the event is a release or its key lies outside 0x20..0x7f.
C17_OtherKeys ==
    [][OtherKeyStep =>
         /\ OtherKeysInAsciiMode
         /\ branch' \in TempBranches <=>
               \/ ~ascii_mode
               \/ /\ input # << >>
                  /\ \/ ev.release
                     \/ ev.keycode < 32
                     \/ ev.keycode >= 128]_vars

\* Return, pressed while composing in ascii mode, was handed to
\* TempAsciiProcess, which set temp_ascii
C17_Witness ==
    /\ key_event = Press(XK_Return)
    /\ branch = "temp_off_composing"
    /\ ascii_mode /\ temp_ascii
    /\ input # << >>
    /\ result = kNoop

\* a shift or ctrl key event that reaches the modifier branch: no chord, not
\* answered by the caps lock handler
ModifierStep ==
    /\ IsKeyStep
    /\ ~((ev.shift /\ ev.ctrl) \/ ev.alt \/ ev.super)
    /\ \/ caps_lock_switch_style_ = kAsciiModeSwitchNoop
       \/ ~ev.caps
    /\ ev.keycode \in {XK_Shift_L, XK_Shift_R, XK_Control_L, XK_Control_R}

\* C18 as stated: a shift or ctrl key event that reaches the modifier branch
\* is swallowed, its decision is never the pass-through decision (kNoop).
C18_Original ==
    [][ModifierStep => result' # kNoop]_vars

\* C18 amended: a shift or ctrl key event that reaches the modifier branch,
\* press or release, tracked or not, tap or not, always gets the
\* pass-through decision (kNoop); it is never rejected and never accepted.
C18_ModifierPassedThrough ==
    [][ModifierStep =>
         /\ result' = kNoop
         /\ branch' \in {"tap", "release_tracked", "release_untracked",
                         "first_down", "repeat_down"}]_vars

\* a left ctrl tap has switched to ascii mode and was passed through
C18_Witness ==
    /\ key_event = Release(XK_Control_L)
    /\ branch = "tap"
    /\ ascii_mode
    /\ result = kNoop

\* C19: shift_key_pressed_ and ctrl_key_pressed_ are never both true; a
\* shift or ctrl press that reaches the modifier branch while one of them is
\* tracked changes neither flag nor the deadline; after a shift or ctrl
\* release that reaches the modifier branch both flags are false.
C19_FirstKeyDownWins ==
    /\ [](~(shift_key_pressed_ /\ ctrl_key_pressed_))
    /\ [][ModifierStep =>
            /\ (~ev.release /\ (shift_key_pressed_ \/ ctrl_key_pressed_)) =>
                   UNCHANGED << shift_key_pressed_, ctrl_key_pressed_,
                                toggle_expired_ >>
            /\ ev.release =>
                   ~shift_key_pressed_' /\ ~ctrl_key_pressed_']_vars

\* left ctrl was pressed some time after the left shift press that is
\* tracked: shift stays the tracked key and the deadline is the one set then
C19_Witness ==
    /\ key_event = Press(XK_Control_L)
    /\ branch = "repeat_down"
    /\ shift_key_pressed_ /\ ~ctrl_key_pressed_
    /\ now > down_at
    /\ toggle_expired_ = down_at + toggle_duration_limit

\* C20: ascii_mode and temp_ascii are never both true: whatever turns
\* ascii_mode on leaves temp_ascii false, and TempAsciiProcess does not set
\* temp_ascii while ascii_mode is true.
C20_NeverBoth ==
    ~(ascii_mode /\ temp_ascii)

====
